---- MODULE Spec2Model ----
(***************************************************************************)
(* Model of desktop-app/src-tauri/src/lib.rs: one invocation of the        *)
(* run_ingestion command, the processes it starts, the event channel of    *)
(* the main process and the log entries it emits.                          *)
(*                                                                         *)
(* A Rust String / byte vector is a sequence of tokens (each token stands  *)
(* for a run of bytes or characters).  Option<T> is a record with a `some` *)
(* flag; Result<T, String> is a record with a `tag`.                       *)
(***************************************************************************)
EXTENDS Integers, Sequences, FiniteSets, TLC

-----------------------------------------------------------------------------
(* Bounds of the model *)

\* number of events the main process may send on its channel
MaxEvents == 3
\* number of events the channel may hold unread
ChanCap == 2

-----------------------------------------------------------------------------
(* Option and Result *)

None == [some |-> FALSE]
Some(v) == [some |-> TRUE, val |-> v]
Opt(S) == {None} \cup {Some(v) : v \in S}

Pending == [tag |-> "Pending"]
Ok(r) == [tag |-> "Ok", val |-> r]
Err(m) == [tag |-> "Err", msg |-> m]

-----------------------------------------------------------------------------
(* Bytes and text *)

\* a byte that is not valid UTF-8, and the character that replaces it
InvalidByte == "xFF"
ReplacementChar == "uFFFD"
NewLine == "\n"

\* String::from_utf8_lossy(..).to_string(): valid bytes are kept, an invalid
\* byte becomes U+FFFD
from_utf8_lossy(bytes) ==
    [i \in 1..Len(bytes) |-> IF bytes[i] = InvalidByte THEN ReplacementChar ELSE bytes[i]]

\* format!("<prefix>{}", s)
format(prefix, s) == <<prefix>> \o s

-----------------------------------------------------------------------------
(* Inputs *)

StdoutChunks == { <<"ok">>, <<"{}", InvalidByte>> }
StderrChunks == { <<"err1", NewLine>>, <<"err2", NewLine>>, <<InvalidByte>> }
ExitCodes == Opt({0, 1})
ErrorMessages == { <<"not found">> }

\* CommandEvent (tauri_plugin_shell::process); the enum is non-exhaustive,
\* "Other" stands for every variant the match does not name
Events ==
    [type : {"Stdout"}, line : StdoutChunks]
      \cup [type : {"Stderr"}, line : StderrChunks]
      \cup [type : {"Terminated"}, code : ExitCodes]
      \cup [type : {"Error"}, err : ErrorMessages]
      \cup [type : {"Other"}]

\* what command.spawn() yields
SpawnOutcomes == {Ok("child")} \cup {Err(e) : e \in ErrorMessages}

\* what shell.command(..).output().await yields for the dependency sync
SyncOutcomes ==
    {Err(e) : e \in ErrorMessages}
      \cup { Ok([code |-> Some(0), stdout |-> <<"synced">>, stderr |-> <<"warn">>]),
             Ok([code |-> Some(1), stdout |-> <<"synced">>, stderr |-> <<>>]),
             Ok([code |-> Some(1), stdout |-> <<>>, stderr |-> <<"boom", InvalidByte>>]),
             Ok([code |-> None, stdout |-> <<>>, stderr |-> <<"boom", InvalidByte>>]) }

TagA == <<"a">>
TagB == <<"b">>
Sources == { <<"filesystem">>, <<"fab">>, <<"uas">>, <<"Fab">>, <<>> }
TagLists == { <<>>, <<TagA, TagB>>, <<TagB, TagA, TagA>> }

\* struct IngestionConfig
AllConfigs ==
    [path : Opt({<<"/assets">>}),
     name : Opt({<<"pack">>}),
     source : Sources,
     tags : TagLists,
     license : Opt({<<>>, <<"MIT">>}),
     download_strategy : Opt({<<"lazy">>}),
     output_dir : Opt({<<"/out">>})]

WorkingDirs == { <<"/ingestion">> }

-----------------------------------------------------------------------------
(* State *)

VARIABLES
    pc,              \* where the invocation is: "start", "sync", "recv", "done"
    config,          \* run_ingestion's argument `config`
    ingestion_path,  \* run_ingestion's argument `ingestion_path`
    outcome,         \* what run_ingestion returned: Pending, Ok(result), Err(msg)
    spawned,         \* the commands handed to the shell (spawn / output), in order
    emitted,         \* the LogEntry values handed to app.emit, in order
    delivered,       \* those of them the log sink accepted (emit returned Ok)
    sync_output,     \* what the dependency sync's output().await yielded
    spawn_result,    \* what the main command's command.spawn() yielded
    rx,              \* the main process's event channel: sent, not yet received
    closed,          \* the channel's sender is gone
    sent,            \* number of events sent on the channel
    received,        \* the events rx.recv() has yielded, in order
    stdout_buffer,
    stderr_buffer,
    effects,         \* "emit" / "spawn": the calls of app.emit and of the shell, in program order
    inv              \* two concurrent run_uv_command invocations (used by SpecPair only)

vars == <<pc, config, ingestion_path, outcome, spawned, emitted, delivered,
          sync_output, spawn_result,
          rx, closed, sent, received, stdout_buffer, stderr_buffer, effects, inv>>

-----------------------------------------------------------------------------
(* Command building *)

\* "..".to_string()
Str(s) == <<s>>

\* shell.command("uv").args(&args).current_dir(working_dir)
Command(args, working_dir) ==
    [program |-> Str("uv"), args |-> args, current_dir |-> working_dir]

\* SourceKind comparing without regard to case
SourceKind_ignoreCase(source) ==
    IF source = Str("filesystem") THEN "filesystem"
    ELSE IF source \in {Str("fab"), Str("uas"), Str("Fab")} THEN "marketplace"
    ELSE "unknown"

\* the match of run_ingestion on config.source.as_str()
SourceKind(source) ==
    IF source = Str("filesystem") THEN "filesystem"
    ELSE IF source = Str("fab") \/ source = Str("uas") THEN "marketplace"
    ELSE "unknown"

\* the `_` arm of run_ingestion
UnknownSourceError(source) == Err(format("Unknown source type: ", source))

\* the two ok_or(..)? of run_filesystem_ingestion, path first
MissingField(c) ==
    IF ~c.path.some THEN Some(Str("Path is required for filesystem source"))
    ELSE IF ~c.name.some THEN Some(Str("Name is required for filesystem source"))
    ELSE None

\* FilesystemArgs passing --license whenever the field is present, empty or not
FilesystemArgs_emptyLicense(c) ==
    LET base == << Str("run"), Str("ingest"), Str("--path"), c.path.val,
                   Str("--name"), c.name.val, Str("--source"), Str("filesystem") >>
        withTags == IF c.tags # <<>> THEN base \o <<Str("--tags")>> \o c.tags ELSE base
    IN  IF c.license.some
        THEN withTags \o << Str("--license"), c.license.val >>
        ELSE withTags

\* FilesystemArgs passing each distinct tag once
FilesystemArgs_tagsDeduplicated(c) ==
    LET base == << Str("run"), Str("ingest"), Str("--path"), c.path.val,
                   Str("--name"), c.name.val, Str("--source"), Str("filesystem") >>
        first == SelectSeq([k \in 1..Len(c.tags) |-> k],
                           LAMBDA k : \A j \in 1..(k - 1) : c.tags[j] # c.tags[k])
        tags == [k \in 1..Len(first) |-> c.tags[first[k]]]
        withTags == IF c.tags # <<>> THEN base \o <<Str("--tags")>> \o tags ELSE base
    IN  IF c.license.some /\ c.license.val # <<>>
        THEN withTags \o << Str("--license"), c.license.val >>
        ELSE withTags

\* the argument vector run_filesystem_ingestion builds (path and name present)
FilesystemArgs(c) ==
    LET base == << Str("run"), Str("ingest"), Str("--path"), c.path.val,
                   Str("--name"), c.name.val, Str("--source"), Str("filesystem") >>
        withTags == IF c.tags # <<>> THEN base \o <<Str("--tags")>> \o c.tags ELSE base
    IN  IF c.license.some /\ c.license.val # <<>>
        THEN withTags \o << Str("--license"), c.license.val >>
        ELSE withTags

\* the argument vector run_marketplace_ingestion builds
MarketplaceArgs(c) ==
    LET base == << Str("run"), Str("python"), Str("-m"),
                   Str("game_asset_tracker_ingestion.gui_helper"), c.source >>
        withStrategy == IF c.download_strategy.some
                        THEN base \o << Str("--download-strategy"), c.download_strategy.val >>
                        ELSE base
    IN  IF c.output_dir.some
        THEN withStrategy \o << Str("--output-dir"), c.output_dir.val >>
        ELSE withStrategy

\* the argument vector of run_uv_sync
SyncArgs(extra) == << Str("sync"), Str("--extra"), extra >>

-----------------------------------------------------------------------------
(* Log entries and results *)

\* struct LogEntry
LogEntry(log_type, message) == [log_type |-> log_type, message |-> message]

InfoLogEntry(c) ==
    LogEntry("info", <<"Syncing ">> \o c.source \o <<" dependencies...">>)

\* StderrLogEntry built after the separator was pushed
StderrLogEntry_withSeparator(text) == LogEntry("stderr", text \o <<NewLine>>)

StderrLogEntry(text) == LogEntry("stderr", text)

\* struct IngestionResult
IngestionResult(success, manifest_json, error) ==
    [success |-> success, manifest_json |-> manifest_json, error |-> error]

\* OnTerminated with only a non-zero code counted as failure (a signal passes)
OnTerminated_signalSucceeds(code, out, err) ==
    IF ~code.some \/ code.val = 0
    THEN Ok(IngestionResult(TRUE, Some(out), None))
    ELSE Ok(IngestionResult(FALSE, None, Some(err)))

\* OnTerminated attaching the stderr buffer to a success as well
OnTerminated_errorAlways(code, out, err) ==
    IF code.some /\ code.val = 0
    THEN Ok(IngestionResult(TRUE, Some(out), Some(err)))
    ELSE Ok(IngestionResult(FALSE, None, Some(err)))

\* the Terminated arm of run_uv_command
OnTerminated(code, out, err) ==
    IF code.some /\ code.val = 0
    THEN Ok(IngestionResult(TRUE, Some(out), None))
    ELSE Ok(IngestionResult(FALSE, None, Some(err)))

\* OnError reported as an ingestion failure instead of a hard error
OnError_asResult(err) == Ok(IngestionResult(FALSE, None, Some(format("Command error: ", err))))

\* the Error arm of run_uv_command
OnError(err) == Err(format("Command error: ", err))

\* PushStdout ending every chunk with a line separator, as PushStderr does
PushStdout_withSeparator(buffer, line) == (buffer \o from_utf8_lossy(line)) \o <<NewLine>>

\* PushStdout putting the new text in front
PushStdout_prepend(buffer, line) == from_utf8_lossy(line) \o buffer

\* the Stdout arm: stdout_buffer.push_str(&text)
PushStdout(buffer, line) == buffer \o from_utf8_lossy(line)

\* PushStderr without the line separator
PushStderr_noSeparator(buffer, line) == buffer \o from_utf8_lossy(line)

\* the Stderr arm: stderr_buffer.push_str(&text); stderr_buffer.push('\n')
PushStderr(buffer, line) == (buffer \o from_utf8_lossy(line)) \o <<NewLine>>

\* EndedUnexpectedly reported as an ingestion failure with an empty error
EndedUnexpectedly_asResult == Ok(IngestionResult(FALSE, None, Some(<<>>)))

\* after the loop of run_uv_command
EndedUnexpectedly == Err(Str("Process ended unexpectedly"))

\* output.status.success()
StatusSuccess(code) == code.some /\ code.val = 0

\* SyncResult without the check of the exit status
SyncResult_statusIgnored(out) ==
    IF out.tag = "Err" THEN Err(format("Failed to run uv sync: ", out.msg))
    ELSE Ok("unit")

\* what run_uv_sync returns for what output().await yielded
SyncResult(out) ==
    IF out.tag = "Err" THEN Err(format("Failed to run uv sync: ", out.msg))
    ELSE IF ~StatusSuccess(out.val.code)
         THEN Err(format("Dependency sync failed: ", from_utf8_lossy(out.val.stderr)))
         ELSE Ok("unit")

SpawnError(e) == Err(format("Failed to spawn: ", e))

-----------------------------------------------------------------------------
(* The invocation *)

\* The configs an invocation is started with: every combination of the fields
\* the source's branch reads; the fields it does not read are all absent, all
\* present, or (marketplace) path alone.
FilesystemFieldsAbsent(c) ==
    ~c.path.some /\ ~c.name.some /\ c.tags = <<>> /\ ~c.license.some
FilesystemFieldsPresent(c) ==
    c.path.some /\ c.name.some /\ c.tags = <<TagB, TagA, TagA>> /\ c.license = Some(<<"MIT">>)
PathAlone(c) ==
    c.path.some /\ ~c.name.some /\ c.tags = <<>> /\ ~c.license.some
Configs ==
    { c \in AllConfigs :
        IF c.source = <<"filesystem">>
        THEN c.download_strategy.some = c.output_dir.some
        ELSE FilesystemFieldsAbsent(c) \/ FilesystemFieldsPresent(c) \/ PathAlone(c) }

Init ==
    /\ pc = "start"
    /\ config \in Configs
    /\ ingestion_path \in WorkingDirs
    /\ outcome = Pending
    /\ spawned = <<>>
    /\ emitted = <<>>
    /\ delivered = <<>>
    /\ sync_output = None
    /\ spawn_result = Pending
    /\ rx = <<>>
    /\ closed = FALSE
    /\ sent = 0
    /\ received = <<>>
    /\ stdout_buffer = <<>>
    /\ stderr_buffer = <<>>
    /\ effects = <<>>
    /\ inv = <<>>

\* let _ = app.emit("ingestion-log", entry): the entry is handed to the sink,
\* which accepts it or fails; the result is dropped
Emit(entry, accepted) ==
    /\ emitted' = Append(emitted, entry)
    /\ delivered' = IF accepted THEN Append(delivered, entry) ELSE delivered

Return(r) ==
    /\ outcome' = r
    /\ pc' = "done"

\* run_uv_command spawning a second time when the first spawn fails
run_uv_command_retry(args, spawn_outcome) ==
    /\ spawn_result' = spawn_outcome
    /\ IF spawn_outcome.tag = "Err"
       THEN /\ spawned' = spawned \o << Command(args, ingestion_path),
                                         Command(args, ingestion_path) >>
            /\ effects' = effects \o <<"spawn", "spawn">>
            /\ Return(SpawnError(spawn_outcome.msg))
       ELSE /\ spawned' = Append(spawned, Command(args, ingestion_path))
            /\ effects' = Append(effects, "spawn")
            /\ pc' = "recv" /\ outcome' = outcome
    /\ UNCHANGED <<rx, closed, sent, received, stdout_buffer, stderr_buffer, inv>>

\* run_uv_command up to its first rx.recv().await: the spawn
run_uv_command(args, spawn_outcome) ==
    /\ spawned' = Append(spawned, Command(args, ingestion_path))
    /\ effects' = Append(effects, "spawn")
    /\ spawn_result' = spawn_outcome
    /\ IF spawn_outcome.tag = "Err"
       THEN Return(SpawnError(spawn_outcome.msg))
       ELSE pc' = "recv" /\ outcome' = outcome
    /\ UNCHANGED <<rx, closed, sent, received, stdout_buffer, stderr_buffer, inv>>

\* run_ingestion, source matches neither arm
run_ingestion_unknown ==
    /\ pc = "start"
    /\ SourceKind(config.source) = "unknown"
    /\ Return(UnknownSourceError(config.source))
    /\ UNCHANGED <<config, ingestion_path, spawned, emitted, delivered, sync_output, spawn_result,
                   rx, closed, sent, received, stdout_buffer, stderr_buffer, effects, inv>>

\* run_ingestion -> run_filesystem_ingestion, a required field is absent
run_filesystem_ingestion_missing ==
    /\ pc = "start"
    /\ SourceKind(config.source) = "filesystem"
    /\ MissingField(config).some
    /\ Return(Err(MissingField(config).val))
    /\ UNCHANGED <<config, ingestion_path, spawned, emitted, delivered, sync_output, spawn_result,
                   rx, closed, sent, received, stdout_buffer, stderr_buffer, effects, inv>>

\* run_ingestion -> run_filesystem_ingestion -> run_uv_command
run_filesystem_ingestion ==
    /\ pc = "start"
    /\ SourceKind(config.source) = "filesystem"
    /\ ~MissingField(config).some
    /\ \E so \in SpawnOutcomes : run_uv_command(FilesystemArgs(config), so)
    /\ UNCHANGED <<config, ingestion_path, emitted, delivered, sync_output>>

\* run_marketplace_ingestion requiring path and name as the filesystem source does
run_marketplace_ingestion_validating ==
    /\ pc = "start"
    /\ SourceKind(config.source) = "marketplace"
    /\ IF MissingField(config).some
       THEN /\ Return(Err(MissingField(config).val))
            /\ UNCHANGED <<spawned, emitted, delivered, effects>>
       ELSE /\ \E accepted \in BOOLEAN : Emit(InfoLogEntry(config), accepted)
            /\ spawned' = Append(spawned, Command(SyncArgs(config.source), ingestion_path))
            /\ effects' = effects \o <<"emit", "spawn">>
            /\ pc' = "sync"
            /\ outcome' = outcome
    /\ UNCHANGED <<config, ingestion_path, sync_output, spawn_result,
                   rx, closed, sent, received, stdout_buffer, stderr_buffer, inv>>

\* run_ingestion -> run_marketplace_ingestion up to run_uv_sync's output().await
run_marketplace_ingestion ==
    /\ pc = "start"
    /\ SourceKind(config.source) = "marketplace"
    /\ \E accepted \in BOOLEAN : Emit(InfoLogEntry(config), accepted)
    /\ spawned' = Append(spawned, Command(SyncArgs(config.source), ingestion_path))
    /\ effects' = effects \o <<"emit", "spawn">>
    /\ pc' = "sync"
    /\ UNCHANGED <<config, ingestion_path, outcome, sync_output, spawn_result,
                   rx, closed, sent, received, stdout_buffer, stderr_buffer, inv>>

\* run_uv_sync_fails forwarding the sync's stderr to the log sink
run_uv_sync_fails_forwarding ==
    /\ pc = "sync"
    /\ \E out \in SyncOutcomes :
         /\ SyncResult(out).tag = "Err"
         /\ sync_output' = Some(out)
         /\ Return(SyncResult(out))
         /\ IF out.tag = "Ok"
            THEN /\ \E accepted \in BOOLEAN :
                      Emit(StderrLogEntry(from_utf8_lossy(out.val.stderr)), accepted)
                 /\ effects' = Append(effects, "emit")
            ELSE UNCHANGED <<emitted, delivered, effects>>
    /\ UNCHANGED <<config, ingestion_path, spawned, spawn_result,
                   rx, closed, sent, received, stdout_buffer, stderr_buffer, inv>>

\* run_uv_sync returns an error: run_marketplace_ingestion returns it (the ?)
run_uv_sync_fails ==
    /\ pc = "sync"
    /\ \E out \in SyncOutcomes :
         /\ SyncResult(out).tag = "Err"
         /\ sync_output' = Some(out)
         /\ Return(SyncResult(out))
    /\ UNCHANGED <<config, ingestion_path, spawned, emitted, delivered, spawn_result,
                   rx, closed, sent, received, stdout_buffer, stderr_buffer, effects, inv>>

\* run_uv_sync returns Ok: run_marketplace_ingestion goes on to run_uv_command
run_uv_sync_succeeds ==
    /\ pc = "sync"
    /\ \E out \in SyncOutcomes :
         /\ SyncResult(out).tag = "Ok"
         /\ sync_output' = Some(out)
    /\ \E so \in SpawnOutcomes : run_uv_command(MarketplaceArgs(config), so)
    /\ UNCHANGED <<config, ingestion_path, emitted, delivered>>

-----------------------------------------------------------------------------
(* The main process and its event channel *)

\* the process sends an event
ProcessSends ==
    /\ pc = "recv"
    /\ ~closed
    /\ sent < MaxEvents
    /\ Len(rx) < ChanCap
    /\ \E e \in Events : rx' = Append(rx, e)
    /\ sent' = sent + 1
    /\ UNCHANGED <<pc, config, ingestion_path, outcome, spawned, emitted, delivered,
                   sync_output, spawn_result, closed, received, stdout_buffer, stderr_buffer, effects, inv>>

\* the process's sender is dropped
ChannelCloses ==
    /\ pc = "recv"
    /\ ~closed
    /\ closed' = TRUE
    /\ UNCHANGED <<pc, config, ingestion_path, outcome, spawned, emitted, delivered,
                   sync_output, spawn_result, rx, sent, received, stdout_buffer, stderr_buffer, effects, inv>>

\* rx.recv().await yields Some(event)
Recv(type) ==
    /\ pc = "recv"
    /\ rx # <<>>
    /\ Head(rx).type = type
    /\ rx' = Tail(rx)
    /\ received' = Append(received, Head(rx))

RecvStdout ==
    /\ Recv("Stdout")
    /\ stdout_buffer' = PushStdout(stdout_buffer, Head(rx).line)
    /\ UNCHANGED <<pc, config, ingestion_path, outcome, spawned, emitted, delivered,
                   sync_output, spawn_result, closed, sent, stderr_buffer, effects, inv>>

\* RecvStderr returning the sink's failure (app.emit(..)? instead of let _ =)
RecvStderr_emitChecked ==
    /\ Recv("Stderr")
    /\ stderr_buffer' = PushStderr(stderr_buffer, Head(rx).line)
    /\ effects' = Append(effects, "emit")
    /\ \E accepted \in BOOLEAN :
         /\ Emit(StderrLogEntry(from_utf8_lossy(Head(rx).line)), accepted)
         /\ IF accepted
            THEN UNCHANGED <<pc, outcome>>
            ELSE Return(Err(Str("failed to emit event")))
    /\ UNCHANGED <<config, ingestion_path, spawned,
                   sync_output, spawn_result, closed, sent, stdout_buffer, inv>>

RecvStderr ==
    /\ Recv("Stderr")
    /\ stderr_buffer' = PushStderr(stderr_buffer, Head(rx).line)
    /\ \E accepted \in BOOLEAN :
         Emit(StderrLogEntry(from_utf8_lossy(Head(rx).line)), accepted)
    /\ effects' = Append(effects, "emit")
    /\ UNCHANGED <<pc, config, ingestion_path, outcome, spawned,
                   sync_output, spawn_result, closed, sent, stdout_buffer, inv>>

RecvTerminated ==
    /\ Recv("Terminated")
    /\ Return(OnTerminated(Head(rx).code, stdout_buffer, stderr_buffer))
    /\ UNCHANGED <<config, ingestion_path, spawned, emitted, delivered,
                   sync_output, spawn_result, closed, sent, stdout_buffer, stderr_buffer, effects, inv>>

RecvError ==
    /\ Recv("Error")
    /\ Return(OnError(Head(rx).err))
    /\ UNCHANGED <<config, ingestion_path, spawned, emitted, delivered,
                   sync_output, spawn_result, closed, sent, stdout_buffer, stderr_buffer, effects, inv>>

\* the `_ => {}` arm
RecvOther ==
    /\ Recv("Other")
    /\ UNCHANGED <<pc, config, ingestion_path, outcome, spawned, emitted, delivered,
                   sync_output, spawn_result, closed, sent, stdout_buffer, stderr_buffer, effects, inv>>

\* RecvNone ending the loop whenever no event is waiting, closed or not
RecvNone_tryRecv ==
    /\ pc = "recv"
    /\ rx = <<>>
    /\ Return(EndedUnexpectedly)
    /\ UNCHANGED <<config, ingestion_path, spawned, emitted, delivered, sync_output, spawn_result,
                   rx, closed, sent, received, stdout_buffer, stderr_buffer, effects, inv>>

\* rx.recv().await yields None: the loop ends
RecvNone ==
    /\ pc = "recv"
    /\ rx = <<>>
    /\ closed
    /\ Return(EndedUnexpectedly)
    /\ UNCHANGED <<config, ingestion_path, spawned, emitted, delivered, sync_output, spawn_result,
                   rx, closed, sent, received, stdout_buffer, stderr_buffer, effects, inv>>

Next ==
    \/ run_ingestion_unknown
    \/ run_filesystem_ingestion_missing
    \/ run_filesystem_ingestion
    \/ run_marketplace_ingestion
    \/ run_uv_sync_fails
    \/ run_uv_sync_succeeds
    \/ ProcessSends
    \/ ChannelCloses
    \/ RecvStdout
    \/ RecvStderr
    \/ RecvTerminated
    \/ RecvError
    \/ RecvOther
    \/ RecvNone

Spec == Init /\ [][Next]_vars

-----------------------------------------------------------------------------
(* Two concurrent invocations of run_uv_command *)

(* SpecPair runs two invocations of run_uv_command side by side, their steps
   interleaved in every order.  Each invocation's locals (rx, the buffers,
   the returned value) are inv[i]; what the invocations share is the app
   handle: the shell (spawned) and the log sink (emitted, delivered).  The
   single invocation's own variables are not used. *)

\* number of events each of the two processes may send
PairMaxEvents == 2

Invocations == {1, 2}

PairEvents ==
    { [type |-> "Stdout", line |-> <<"ok">>],
      [type |-> "Stderr", line |-> <<"err1", NewLine>>],
      [type |-> "Terminated", code |-> Some(0)],
      [type |-> "Terminated", code |-> Some(1)],
      [type |-> "Error", err |-> <<"not found">>] }

\* the locals of an invocation that has not spawned yet
Fresh ==
    [pc |-> "start", spawn_result |-> Pending, outcome |-> Pending,
     rx |-> <<>>, closed |-> FALSE, sent |-> 0, received |-> <<>>,
     stdout_buffer |-> <<>>, stderr_buffer |-> <<>>]

InitPair ==
    /\ pc = "start"
    /\ ingestion_path \in WorkingDirs
    /\ outcome = Pending
    /\ spawned = <<>>
    /\ emitted = <<>>
    /\ delivered = <<>>
    /\ sync_output = None
    /\ spawn_result = Pending
    /\ rx = <<>>
    /\ closed = FALSE
    /\ sent = 0
    /\ received = <<>>
    /\ stdout_buffer = <<>>
    /\ stderr_buffer = <<>>
    /\ effects = <<>>
    /\ config = [path |-> Some(<<"/assets">>), name |-> Some(<<"pack">>),
                 source |-> <<"filesystem">>, tags |-> <<>>, license |-> None,
                 download_strategy |-> None, output_dir |-> None]
    /\ inv = [i \in Invocations |-> Fresh]

\* Own with the two buffers kept in one place for all invocations
Own_sharedBuffers(i, r) ==
    inv' = [j \in Invocations |->
              IF j = i THEN r
              ELSE [inv[j] EXCEPT !.stdout_buffer = r.stdout_buffer,
                                  !.stderr_buffer = r.stderr_buffer]]

\* invocation i changes its own locals (let mut stdout_buffer, stderr_buffer,
\* rx are locals of the call)
Own(i, r) == inv' = [inv EXCEPT ![i] = r]

PairUnused ==
    UNCHANGED <<pc, config, ingestion_path, outcome, sync_output, spawn_result,
                rx, closed, sent, received, stdout_buffer, stderr_buffer, effects>>

\* run_uv_command up to its first rx.recv().await
PairSpawn(i) ==
    /\ inv[i].pc = "start"
    /\ spawned' = Append(spawned, Command(FilesystemArgs(config), ingestion_path))
    /\ \E so \in SpawnOutcomes :
         Own(i, [inv[i] EXCEPT
                   !.spawn_result = so,
                   !.pc = IF so.tag = "Err" THEN "done" ELSE "recv",
                   !.outcome = IF so.tag = "Err" THEN SpawnError(so.msg) ELSE @])
    /\ PairUnused
    /\ UNCHANGED <<emitted, delivered>>

PairSends(i) ==
    /\ inv[i].pc = "recv"
    /\ ~inv[i].closed
    /\ inv[i].sent < PairMaxEvents
    /\ Len(inv[i].rx) < ChanCap
    /\ \E e \in PairEvents :
         Own(i, [inv[i] EXCEPT !.rx = Append(@, e), !.sent = @ + 1])
    /\ PairUnused
    /\ UNCHANGED <<spawned, emitted, delivered>>

PairCloses(i) ==
    /\ inv[i].pc = "recv"
    /\ ~inv[i].closed
    /\ Own(i, [inv[i] EXCEPT !.closed = TRUE])
    /\ PairUnused
    /\ UNCHANGED <<spawned, emitted, delivered>>

\* rx.recv().await of invocation i yields Some(event) of the given type
PairHead(i, type) ==
    /\ inv[i].pc = "recv"
    /\ inv[i].rx # <<>>
    /\ Head(inv[i].rx).type = type

\* the locals of invocation i with the head of rx received
Popped(i) ==
    [inv[i] EXCEPT !.rx = Tail(@), !.received = Append(@, Head(inv[i].rx))]

PairRecvStdout(i) ==
    /\ PairHead(i, "Stdout")
    /\ Own(i, [Popped(i) EXCEPT
                 !.stdout_buffer = PushStdout(@, Head(inv[i].rx).line)])
    /\ PairUnused
    /\ UNCHANGED <<spawned, emitted, delivered>>

PairRecvStderr(i) ==
    /\ PairHead(i, "Stderr")
    /\ Own(i, [Popped(i) EXCEPT
                 !.stderr_buffer = PushStderr(@, Head(inv[i].rx).line)])
    /\ \E accepted \in BOOLEAN :
         Emit(StderrLogEntry(from_utf8_lossy(Head(inv[i].rx).line)), accepted)
    /\ PairUnused
    /\ UNCHANGED spawned

PairRecvTerminated(i) ==
    /\ PairHead(i, "Terminated")
    /\ Own(i, [Popped(i) EXCEPT
                 !.pc = "done",
                 !.outcome = OnTerminated(Head(inv[i].rx).code,
                                          inv[i].stdout_buffer, inv[i].stderr_buffer)])
    /\ PairUnused
    /\ UNCHANGED <<spawned, emitted, delivered>>

PairRecvError(i) ==
    /\ PairHead(i, "Error")
    /\ Own(i, [Popped(i) EXCEPT
                 !.pc = "done",
                 !.outcome = OnError(Head(inv[i].rx).err)])
    /\ PairUnused
    /\ UNCHANGED <<spawned, emitted, delivered>>

PairRecvNone(i) ==
    /\ inv[i].pc = "recv"
    /\ inv[i].rx = <<>>
    /\ inv[i].closed
    /\ Own(i, [inv[i] EXCEPT !.pc = "done", !.outcome = EndedUnexpectedly])
    /\ PairUnused
    /\ UNCHANGED <<spawned, emitted, delivered>>

NextPair ==
    \E i \in Invocations :
        \/ PairSpawn(i)
        \/ PairSends(i)
        \/ PairCloses(i)
        \/ PairRecvStdout(i)
        \/ PairRecvStderr(i)
        \/ PairRecvTerminated(i)
        \/ PairRecvError(i)
        \/ PairRecvNone(i)

SpecPair == InitPair /\ [][NextPair]_vars

-----------------------------------------------------------------------------
(* One filesystem invocation under fair scheduling of the handler's task.
   The handler is suspended only in rx.recv().await; the runtime resumes it
   whenever an event is waiting in the channel or the channel is closed, so
   the step that serves the recv is weakly fair.  Nothing is assumed of the
   process: it may never send and never close. *)

InitLive ==
    /\ Init
    /\ config.source = <<"filesystem">>
    /\ FilesystemFieldsPresent(config)
    /\ ~config.download_strategy.some

\* rx.recv().await is served
RecvAny ==
    \/ RecvStdout
    \/ RecvStderr
    \/ RecvTerminated
    \/ RecvError
    \/ RecvOther
    \/ RecvNone

NextLive ==
    \/ run_filesystem_ingestion
    \/ ProcessSends
    \/ ChannelCloses
    \/ RecvStdout
    \/ RecvStderr
    \/ RecvTerminated
    \/ RecvError
    \/ RecvOther
    \/ RecvNone

SpecLive == InitLive /\ [][NextLive]_vars /\ WF_vars(RecvAny)

-----------------------------------------------------------------------------
(* Vocabulary of the properties *)

RECURSIVE Concat(_)
\* the concatenation of a sequence of strings
Concat(ss) == IF ss = <<>> THEN <<>> ELSE Head(ss) \o Concat(Tail(ss))

\* the text of a chunk
Text(chunk) == from_utf8_lossy(chunk)

\* the texts of the chunks of one stream among the events evs, in order
Texts(evs, type) ==
    LET sel == SelectSeq(evs, LAMBDA e : e.type = type)
    IN  [i \in 1..Len(sel) |-> Text(sel[i].line)]

IsTerminal(e) == e.type \in {"Terminated", "Error"}

\* event i is the first terminal event of evs
FirstTerminal(evs, i) ==
    /\ IsTerminal(evs[i])
    /\ \A j \in 1..(i - 1) : ~IsTerminal(evs[j])

Before(evs, i) == SubSeq(evs, 1, i - 1)

\* s contains sub as a contiguous part
Contains(s, sub) ==
    \E i \in 0..(Len(s) - Len(sub)) : SubSeq(s, i + 1, i + Len(sub)) = sub

Returned == pc = "done"

-----------------------------------------------------------------------------
(* C1: when the first terminal event received is Terminated with exit code 0,
   the invocation returns Ok with success = true, manifest_json = the texts
   of the stdout chunks received before it, concatenated in arrival order,
   and no error; stderr chunks contribute nothing to the payload. *)
C1_SuccessPayload ==
    \A i \in 1..Len(received) :
        ( /\ FirstTerminal(received, i)
          /\ received[i].type = "Terminated"
          /\ received[i].code.some
          /\ received[i].code.val = 0 )
        => /\ Returned
           /\ outcome.tag = "Ok"
           /\ outcome.val.success = TRUE
           /\ outcome.val.manifest_json.some
           /\ outcome.val.manifest_json.val = Concat(Texts(Before(received, i), "Stdout"))
           /\ ~outcome.val.error.some

\* exit code 0 after a stdout chunk and a stderr chunk
C1_Witness ==
    /\ Returned
    /\ Len(received) = 3
    /\ received[1].type = "Stdout"
    /\ received[2].type = "Stderr"
    /\ received[3].type = "Terminated"
    /\ received[3].code.some /\ received[3].code.val = 0
    /\ outcome.tag = "Ok" /\ outcome.val.success

(* C2: when the first terminal event received is Terminated with a non-zero
   or an absent exit code, the invocation returns Ok with success = false,
   no payload and error = the stderr buffer, whatever the buffers hold. *)
C2_FailureResult ==
    \A i \in 1..Len(received) :
        ( /\ FirstTerminal(received, i)
          /\ received[i].type = "Terminated"
          /\ ~(received[i].code.some /\ received[i].code.val = 0) )
        => /\ Returned
           /\ outcome.tag = "Ok"
           /\ outcome.val.success = FALSE
           /\ ~outcome.val.manifest_json.some
           /\ outcome.val.error.some
           /\ outcome.val.error.val = stderr_buffer

\* a signal termination after stdout output and no stderr output
C2_Witness ==
    /\ Returned
    /\ Len(received) = 2
    /\ received[1].type = "Stdout"
    /\ received[2].type = "Terminated"
    /\ ~received[2].code.some
    /\ outcome.tag = "Ok" /\ ~outcome.val.success
    /\ stderr_buffer = <<>>

\* a failure's error text, as C3 states it: the chunks and nothing else
C3_ErrorOf(evs) == Concat(Texts(evs, "Stderr"))

\* a failure's error text: every chunk followed by one line separator
C3_ErrorWithSeparators(evs) ==
    LET t == Texts(evs, "Stderr")
    IN  Concat([k \in 1..Len(t) |-> t[k] \o <<NewLine>>])

(* C3, as stated: after stderr chunks c1..cn and Terminated with a non-zero
   exit code, error is exactly c1..cn concatenated, nothing added between or
   after them. *)
C3_ErrorIsChunksOnly ==
    \A i \in 1..Len(received) :
        ( /\ FirstTerminal(received, i)
          /\ received[i].type = "Terminated"
          /\ received[i].code.some /\ received[i].code.val # 0 )
        => /\ outcome.tag = "Ok"
           /\ outcome.val.error.some
           /\ outcome.val.error.val = C3_ErrorOf(Before(received, i))

(* C3, amended: after stderr chunks c1..cn and Terminated with a non-zero
   exit code, error is c1 sep c2 sep .. cn sep: each chunk's text followed by
   one line separator, in arrival order. *)
C3_ErrorIsChunksWithSeparators ==
    \A i \in 1..Len(received) :
        ( /\ FirstTerminal(received, i)
          /\ received[i].type = "Terminated"
          /\ received[i].code.some /\ received[i].code.val # 0 )
        => /\ outcome.tag = "Ok"
           /\ outcome.val.error.some
           /\ outcome.val.error.val = C3_ErrorWithSeparators(Before(received, i))

\* the chunks "err1\n", "err2\n" then exit code 1: error is "err1\n\nerr2\n\n"
C3_Witness ==
    /\ Returned
    /\ received = << [type |-> "Stderr", line |-> <<"err1", NewLine>>],
                     [type |-> "Stderr", line |-> <<"err2", NewLine>>],
                     [type |-> "Terminated", code |-> Some(1)] >>
    /\ outcome.tag = "Ok"
    /\ outcome.val.error = Some(<<"err1", NewLine, NewLine, "err2", NewLine, NewLine>>)

(* C4: the log entries emitted are, after the marketplace's one leading info
   entry if any, exactly one "stderr" entry per stderr chunk received, with
   the chunk's text as message, in arrival order; this holds in every state,
   so each entry is emitted before the next event is received, and stdout
   chunks and terminal events add none. *)
C4_StderrLogEntries ==
    LET fromCommand == IF emitted # <<>> /\ emitted[1].log_type = "info"
                       THEN Tail(emitted) ELSE emitted
        t == Texts(received, "Stderr")
    IN  fromCommand = [k \in 1..Len(t) |-> [log_type |-> "stderr", message |-> t[k]]]

\* two different stderr chunks with a stdout chunk between them
C4_Witness ==
    /\ Len(received) = 3
    /\ received[1].type = "Stderr"
    /\ received[2].type = "Stdout"
    /\ received[3].type = "Stderr"
    /\ received[1].line # received[3].line
    /\ Len(emitted) = 2

(* C5: if the main command fails to spawn, or an Error event is received
   before any Terminated event, the invocation returns Err with a message
   that contains the error's message, and so no IngestionResult, whatever
   chunks came before. *)
C5_HardError ==
    /\ spawn_result.tag = "Err"
         => /\ Returned
            /\ outcome.tag = "Err"
            /\ Contains(outcome.msg, spawn_result.msg)
            /\ received = <<>>
    /\ \A i \in 1..Len(received) :
         (FirstTerminal(received, i) /\ received[i].type = "Error")
         => /\ Returned
            /\ outcome.tag = "Err"
            /\ Contains(outcome.msg, received[i].err)

\* an Error event after a stdout and a stderr chunk
C5_Witness ==
    /\ Returned
    /\ Len(received) = 3
    /\ received[1].type = "Stdout"
    /\ received[2].type = "Stderr"
    /\ received[3].type = "Error"
    /\ outcome.tag = "Err"

NoTerminal(evs) == \A j \in 1..Len(evs) : ~IsTerminal(evs[j])

(* C6: an invocation whose main command was spawned returns without having
   received a Terminated or an Error event only when the channel is closed
   and empty, and then it returns Err("Process ended unexpectedly"), so no
   IngestionResult, whatever chunks it received. *)
C6_StreamEnded ==
    (Returned /\ spawn_result.tag = "Ok" /\ NoTerminal(received))
    => /\ closed
       /\ rx = <<>>
       /\ outcome = [tag |-> "Err", msg |-> <<"Process ended unexpectedly">>]

\* the channel closed after a stdout and a stderr chunk
C6_Witness ==
    /\ Returned
    /\ closed
    /\ Len(received) = 2
    /\ received[1].type = "Stdout"
    /\ received[2].type = "Stderr"
    /\ outcome.tag = "Err"

KnownSources == { <<"filesystem">>, <<"fab">>, <<"uas">> }
MarketplaceSources == { <<"fab">>, <<"uas">> }

(* C7: for a config whose source is none of "filesystem", "fab", "uas" the
   invocation returns Err("Unknown source type: <source>"), hands no command
   to the shell (neither the sync nor the main command) and emits no
   LogEntry. *)
C7_UnknownSource ==
    config.source \notin KnownSources
    => /\ spawned = <<>>
       /\ emitted = <<>>
       /\ sync_output = None
       /\ spawn_result = Pending
       /\ pc \in {"start", "done"}
       /\ Returned => outcome = [tag |-> "Err",
                                 msg |-> <<"Unknown source type: ">> \o config.source]

\* the source "Fab" was rejected
C7_Witness ==
    /\ Returned
    /\ config.source = <<"Fab">>
    /\ outcome.tag = "Err"

MissingFieldMessages ==
    { <<"Path is required for filesystem source">>,
      <<"Name is required for filesystem source">> }

(* C8: for a filesystem config without path or without name the invocation
   returns a missing-field Err, hands no command to the shell and emits no
   LogEntry; for a marketplace source no missing-field error is ever
   returned, and the invocation goes on to the sync whether or not path and
   name are there. *)
C8_MissingField ==
    /\ (config.source = <<"filesystem">> /\ (~config.path.some \/ ~config.name.some))
       => /\ spawned = <<>>
          /\ emitted = <<>>
          /\ spawn_result = Pending
          /\ pc \in {"start", "done"}
          /\ Returned => /\ outcome.tag = "Err"
                         /\ outcome.msg \in MissingFieldMessages
    /\ config.source \in MarketplaceSources
       => /\ ~(outcome.tag = "Err" /\ outcome.msg \in MissingFieldMessages)
          /\ pc # "start" => spawned # <<>>

\* a filesystem config with a path and no name was rejected
C8_Witness ==
    /\ Returned
    /\ config.source = <<"filesystem">>
    /\ config.path.some
    /\ ~config.name.some
    /\ outcome.tag = "Err"

\* a marketplace config without path and name went on to its main command
C8_WitnessMarketplace ==
    /\ config.source \in MarketplaceSources
    /\ ~config.path.some
    /\ ~config.name.some
    /\ pc = "recv"

IsSyncCommand(cmd) == cmd.args[1] = <<"sync">>
IsMainCommand(cmd) == cmd.args[1] = <<"run">>

(* C9: in a marketplace invocation the first command handed to the shell is
   the dependency sync, and the main command is handed to it only once the
   sync has completed with exit code 0; when the sync exits with another or
   no code, the invocation returns Err("Dependency sync failed: <the sync's
   stderr text>"), when the sync cannot be run it returns Err("Failed to run
   uv sync: <why>"), and in both cases the main command is never spawned and
   no IngestionResult is returned. *)
C9_SyncFirst ==
    config.source \in MarketplaceSources
    => /\ \A k \in 1..Len(spawned) :
            /\ IsSyncCommand(spawned[k]) <=> k = 1
            /\ IsMainCommand(spawned[k]) <=> k = 2
            /\ k = 2 => /\ sync_output.some
                        /\ sync_output.val.tag = "Ok"
                        /\ sync_output.val.val.code = Some(0)
       /\ Len(spawned) <= 2
       /\ (sync_output.some /\ sync_output.val.tag = "Ok"
              /\ sync_output.val.val.code # Some(0))
          => /\ Returned
             /\ Len(spawned) = 1
             /\ spawn_result = Pending
             /\ outcome = [tag |-> "Err",
                           msg |-> <<"Dependency sync failed: ">>
                                      \o Text(sync_output.val.val.stderr)]
       /\ (sync_output.some /\ sync_output.val.tag = "Err")
          => /\ Returned
             /\ Len(spawned) = 1
             /\ spawn_result = Pending
             /\ outcome = [tag |-> "Err",
                           msg |-> <<"Failed to run uv sync: ">> \o sync_output.val.msg]

\* the sync exited with code 1 and a stderr text
C9_Witness ==
    /\ Returned
    /\ config.source \in MarketplaceSources
    /\ sync_output.some
    /\ sync_output.val.tag = "Ok"
    /\ sync_output.val.val.code = Some(1)
    /\ sync_output.val.val.stderr # <<>>
    /\ outcome.tag = "Err"

(* C10: every IngestionResult returned has success = true, a payload and no
   error, or success = false, no payload and an error. *)
C10_ExactlyOne ==
    outcome.tag = "Ok"
    => /\ outcome.val.success <=> outcome.val.manifest_json.some
       /\ outcome.val.success <=> ~outcome.val.error.some

\* a success with a non-empty stderr buffer
C10_Witness ==
    /\ outcome.tag = "Ok"
    /\ outcome.val.success
    /\ stderr_buffer # <<>>

\* the positions of the argument flag in the argument vector args
Positions(args, flag) == { k \in 1..Len(args) : args[k] = <<flag>> }

\* the main command of a filesystem invocation that got as far as spawning
FilesystemSpawned == config.source = <<"filesystem">> /\ spawned # <<>>

(* C11: the argument vector of a filesystem invocation with tags t1..tn,
   n > 0, holds "--tags" once, immediately followed by t1..tn as n separate
   arguments in input order, duplicates kept, and then by nothing or by
   "--license"; with no tags it holds no "--tags". *)
C11_Tags ==
    FilesystemSpawned
    => LET args == spawned[1].args
           n == Len(config.tags)
           at == Positions(args, "--tags")
       IN  IF n = 0
           THEN at = {}
           ELSE /\ Cardinality(at) = 1
                /\ \A k \in at :
                     /\ k + n <= Len(args)
                     /\ SubSeq(args, k + 1, k + n) = config.tags
                     /\ k + n < Len(args) => args[k + n + 1] = <<"--license">>

\* the tags b, a, a were passed on
C11_Witness ==
    /\ FilesystemSpawned
    /\ config.tags = << <<"b">>, <<"a">>, <<"a">> >>
    /\ pc = "recv"

\* what run_uv_command returns for what spawn() yielded and the events it
\* received, once it has returned
ExpectedCommandOutcome(sr, evs) ==
    IF sr.tag = "Err"
    THEN [tag |-> "Err", msg |-> <<"Failed to spawn: ">> \o sr.msg]
    ELSE IF NoTerminal(evs)
    THEN [tag |-> "Err", msg |-> <<"Process ended unexpectedly">>]
    ELSE LET i == CHOOSE k \in 1..Len(evs) : FirstTerminal(evs, k)
             b == Before(evs, i)
         IN  IF evs[i].type = "Error"
             THEN [tag |-> "Err", msg |-> <<"Command error: ">> \o evs[i].err]
             ELSE IF evs[i].code.some /\ evs[i].code.val = 0
             THEN [tag |-> "Ok",
                   val |-> [success |-> TRUE,
                            manifest_json |-> Some(Concat(Texts(b, "Stdout"))),
                            error |-> None]]
             ELSE [tag |-> "Ok",
                   val |-> [success |-> FALSE,
                            manifest_json |-> None,
                            error |-> Some(C3_ErrorWithSeparators(b))]]

\* what run_ingestion returns, once it has returned: a function of the config,
\* of what the processes did and of the events received, not of the log sink
ExpectedOutcome ==
    IF config.source \notin KnownSources
    THEN [tag |-> "Err", msg |-> <<"Unknown source type: ">> \o config.source]
    ELSE IF config.source = <<"filesystem">> /\ ~config.path.some
    THEN [tag |-> "Err", msg |-> <<"Path is required for filesystem source">>]
    ELSE IF config.source = <<"filesystem">> /\ ~config.name.some
    THEN [tag |-> "Err", msg |-> <<"Name is required for filesystem source">>]
    ELSE IF sync_output.some /\ sync_output.val.tag = "Err"
    THEN [tag |-> "Err", msg |-> <<"Failed to run uv sync: ">> \o sync_output.val.msg]
    ELSE IF sync_output.some /\ sync_output.val.val.code # Some(0)
    THEN [tag |-> "Err", msg |-> <<"Dependency sync failed: ">>
                                    \o Text(sync_output.val.val.stderr)]
    ELSE ExpectedCommandOutcome(spawn_result, received)

(* C12: the buffers and the returned outcome are the same function of the
   config, the processes' behaviour and the events received whether the sink
   accepted or refused each LogEntry; and wherever an entry is emitted, the
   step with a refusing sink is possible and leaves the invocation going. *)
C12_SinkIndependent ==
    /\ stdout_buffer = Concat(Texts(received, "Stdout"))
    /\ stderr_buffer = C3_ErrorWithSeparators(received)
    /\ Returned => outcome = ExpectedOutcome
    /\ (pc = "recv" /\ rx # <<>> /\ Head(rx).type = "Stderr")
       => ENABLED (RecvStderr /\ delivered' = delivered /\ pc' = "recv")
    /\ (pc = "start" /\ config.source \in MarketplaceSources)
       => ENABLED (run_marketplace_ingestion /\ delivered' = delivered /\ pc' = "sync")

\* a marketplace invocation returned a result although the sink refused the
\* info entry and two stderr entries
C12_Witness ==
    /\ Returned
    /\ outcome.tag = "Ok"
    /\ Len(emitted) = 3
    /\ delivered = <<>>

(* C13: with two invocations running concurrently, their events interleaved
   in every order, each invocation's buffers hold its own chunks only and
   its returned outcome is the one run_uv_command returns alone for the
   events that invocation received. *)
C13_Isolation ==
    \A i \in Invocations :
        /\ inv[i].stdout_buffer = Concat(Texts(inv[i].received, "Stdout"))
        /\ inv[i].stderr_buffer = C3_ErrorWithSeparators(inv[i].received)
        /\ inv[i].pc = "done"
           => inv[i].outcome = ExpectedCommandOutcome(inv[i].spawn_result, inv[i].received)
        /\ inv[i].pc # "done" => inv[i].outcome = Pending

\* invocation 1 returned a success while invocation 2, which has received a
\* stderr chunk, is still running
C13_Witness ==
    /\ inv[1].pc = "done"
    /\ inv[1].outcome.tag = "Ok"
    /\ inv[1].outcome.val.success
    /\ inv[1].stdout_buffer # <<>>
    /\ inv[2].pc = "recv"
    /\ inv[2].stderr_buffer # <<>>

(* C15: when the invocation returns after its main command was spawned, no
   event is left unread in the channel (it drained the stream to its end
   after the outcome was determined). *)
C15_NothingLeftUnread ==
    (Returned /\ spawn_result.tag = "Ok") => rx = <<>>

\* the last event received, in a step that received one
Last(evs) == evs[Len(evs)]

(* C16: a step that receives a stdout chunk appends the chunk's text, and
   nothing else, to the stdout buffer and leaves the stderr buffer as it is;
   a step that receives a stderr chunk appends the chunk's text and one line
   separator to the stderr buffer and leaves the stdout buffer as it is; a
   step that receives any other event, and a step that receives none,
   leaves both as they are. *)
C16_BufferFrame ==
    [][ IF received' = received
        THEN stdout_buffer' = stdout_buffer /\ stderr_buffer' = stderr_buffer
        ELSE /\ received' = Append(received, Last(received'))
             /\ CASE Last(received').type = "Stdout" ->
                       /\ stdout_buffer' = stdout_buffer \o Text(Last(received').line)
                       /\ stderr_buffer' = stderr_buffer
                  [] Last(received').type = "Stderr" ->
                       /\ stderr_buffer' = stderr_buffer \o Text(Last(received').line)
                                                         \o <<NewLine>>
                       /\ stdout_buffer' = stdout_buffer
                  [] OTHER ->
                       /\ stdout_buffer' = stdout_buffer
                       /\ stderr_buffer' = stderr_buffer
      ]_vars

\* an unrecognized event was received after a stdout and a stderr chunk
C16_Witness ==
    /\ Len(received) = 3
    /\ received[1].type = "Stdout"
    /\ received[2].type = "Stderr"
    /\ received[3].type = "Other"
    /\ stdout_buffer # <<>>
    /\ stderr_buffer # <<>>

SyncSucceeded ==
    /\ sync_output.some
    /\ sync_output.val.tag = "Ok"
    /\ sync_output.val.val.code = Some(0)

(* C17: a marketplace invocation that has started has emitted exactly one
   "info" LogEntry, as its first effect, before handing the sync to the
   shell; while the sync runs and when it has failed, that entry is the only
   one emitted; every "stderr" entry comes after the sync has succeeded and
   the main command has been spawned. *)
C17_InfoBeforeSync ==
    config.source \in MarketplaceSources
    => IF pc = "start"
       THEN emitted = <<>> /\ effects = <<>>
       ELSE /\ Len(emitted) >= 1
            /\ emitted[1] = [log_type |-> "info",
                             message |-> <<"Syncing ">> \o config.source
                                            \o <<" dependencies...">>]
            /\ \A k \in 2..Len(emitted) : emitted[k].log_type = "stderr"
            /\ Len(effects) >= 2
            /\ effects[1] = "emit"
            /\ effects[2] = "spawn"
            /\ IsSyncCommand(spawned[1])
            /\ (pc = "sync" \/ ~SyncSucceeded) => Len(emitted) = 1
            /\ Len(emitted) >= 2
               => /\ SyncSucceeded
                  /\ spawn_result.tag = "Ok"
                  /\ effects[3] = "spawn"
                  /\ IsMainCommand(spawned[2])

\* the sync failed with a stderr text and only the info entry was emitted
C17_Witness ==
    /\ Returned
    /\ config.source \in MarketplaceSources
    /\ sync_output.some
    /\ sync_output.val.tag = "Ok"
    /\ sync_output.val.val.stderr # <<>>
    /\ ~SyncSucceeded
    /\ Len(emitted) = 1

\* the value of option o as a flag and its value, or nothing
FlagPair(flag, o) == IF o.some THEN << <<flag>>, o.val >> ELSE <<>>

(* C18: the filesystem vector ends with "--license <license>" iff license is
   present and non-empty, and holds neither marketplace flag; the marketplace
   vector is its five fixed arguments, the source last, followed by
   "--download-strategy <strategy>" iff download_strategy is present and then
   by "--output-dir <dir>" iff output_dir is present, and holds none of
   --path, --name, --tags, --license. *)
C18_OptionalArgs ==
    /\ FilesystemSpawned
       => LET args == spawned[1].args
              at == Positions(args, "--license")
          IN  /\ (config.license.some /\ config.license.val # <<>>) <=> at # {}
              /\ \A k \in at : k = Len(args) - 1 /\ args[k + 1] = config.license.val
              /\ Positions(args, "--download-strategy") = {}
              /\ Positions(args, "--output-dir") = {}
    /\ (config.source \in MarketplaceSources /\ Len(spawned) >= 2)
       => LET args == spawned[2].args
          IN  /\ Len(args) >= 5
              /\ args[5] = config.source
              /\ SubSeq(args, 6, Len(args))
                   = FlagPair("--download-strategy", config.download_strategy)
                       \o FlagPair("--output-dir", config.output_dir)
              /\ \A f \in {"--path", "--name", "--tags", "--license"} :
                     Positions(args, f) = {}

\* a filesystem command built from an empty license and both marketplace fields
C18_Witness ==
    /\ FilesystemSpawned
    /\ config.license = Some(<<>>)
    /\ config.download_strategy.some
    /\ config.output_dir.some

\* a marketplace command built from both marketplace fields and a license
C18_WitnessMarketplace ==
    /\ config.source \in MarketplaceSources
    /\ Len(spawned) = 2
    /\ config.download_strategy.some
    /\ config.output_dir.some
    /\ config.license.some

(* C19: in every step the shell has been handed the sync at most once and the
   main command at most once, the invocation has an outcome exactly when it
   has returned, and once it has returned nothing is spawned and the outcome
   does not change. *)
C19_NoRetry ==
    [][ /\ Cardinality({ k \in 1..Len(spawned') : IsSyncCommand(spawned'[k]) }) <= 1
        /\ Cardinality({ k \in 1..Len(spawned') : IsMainCommand(spawned'[k]) }) <= 1
        /\ Len(effects') = Len(spawned') + Len(emitted')
        /\ outcome'.tag \in {"Ok", "Err"} <=> pc' = "done"
        /\ outcome'.tag = "Pending" <=> pc' # "done"
        /\ Returned => /\ outcome' = outcome
                       /\ spawned' = spawned
                       /\ pc' = pc
      ]_vars

\* the main command of a marketplace invocation failed to spawn, once
C19_Witness ==
    /\ Returned
    /\ spawn_result.tag = "Err"
    /\ Len(spawned) = 2

\* a terminal event is waiting in the channel, or the channel is closed
TerminalOrClosePending ==
    /\ pc = "recv"
    /\ \/ closed
       \/ \E k \in 1..Len(rx) : IsTerminal(rx[k])

(* C20: under fair scheduling of the handler, once a terminal event has been
   sent or the channel has been closed the invocation returns; and it has
   never returned from the loop unless it received a terminal event or the
   channel was closed and empty: while the process neither sends a terminal
   event nor closes, the invocation stays in the loop. *)
C20_ReturnsOnlyOnTerminalOrClose ==
    /\ [](  (Returned /\ spawn_result.tag = "Ok")
            => \/ \E k \in 1..Len(received) : IsTerminal(received[k])
               \/ closed /\ rx = <<>> )
    /\ [](  (spawn_result.tag = "Ok" /\ ~closed /\ NoTerminal(received)
               /\ \A k \in 1..Len(rx) : ~IsTerminal(rx[k]))
            => pc = "recv" )
    /\ TerminalOrClosePending ~> Returned

\* the invocation returned on a terminal event that arrived after two chunks
C20_Witness ==
    /\ Returned
    /\ Len(received) = 3
    /\ received[3].type = "Terminated"
    /\ ~closed

====
